---------------------------- MODULE Spec2Model ----------------------------
(***************************************************************************)
(* Model of page-stream-seg: the Document value type (helper_classes.py)   *)
(* and the SegEval strict segmentation metrics (metrics.py).               *)
(*                                                                         *)
(* Python values are modelled as follows.                                  *)
(*   str    a sequence of code points, ordered as Python orders str        *)
(*   int    an integer                                                     *)
(*   float  an exact fraction <<n, d>> in lowest terms with d > 0 (every   *)
(*          float the metrics produce is a quotient of small set sizes)    *)
(*   bool / None as returned by __eq__: "True", "False", "None"            *)
(*   the outcome of a call: [kind |-> "return", val |-> v] or              *)
(*          [kind |-> "raise", exc |-> <class>, msg |-> <message>]         *)
(*   an object: a record of its attributes plus oid, the object's identity *)
(***************************************************************************)
EXTENDS Integers, Sequences, FiniteSets, TLC

\* Largest page index handed to the Document constructor.
MaxIdx == 2
\* Longest list handed to the SegEval constructor.
MaxLen == 2

\* Dossier names "d", "d1" and "e" as code points: a name, a proper
\* extension of it, and a name that differs in its first character.
Names == {<<100>>, <<100, 49>>, <<101>>}

Indices == 1..MaxIdx

NoOutcome == [kind |-> "none"]

Return(v) == [kind |-> "return", val |-> v]

Raise(exc, msg) == [kind |-> "raise", exc |-> exc, msg |-> msg]

-----------------------------------------------------------------------------
(* Builtin comparisons the Document hooks delegate to. *)

Min2(a, b) == IF a < b THEN a ELSE b

\* str < str: the first differing code point decides, a proper prefix is
\* smaller.
StrLt(s, t) ==
    LET n == Min2(Len(s), Len(t))
        diff == {i \in 1..n : s[i] # t[i]}
    IN  IF diff = {}
        THEN Len(s) < Len(t)
        ELSE LET i == CHOOSE j \in diff : \A k \in diff : j <= k
             IN  s[i] < t[i]

\* tuple > tuple on (str, int, int) keys: the first position whose items
\* are not equal decides with that item's own >; equal keys are not greater.
TupleGt(k1, k2) ==
    LET diff == {i \in 1..3 : k1[i] # k2[i]}
    IN  IF diff = {}
        THEN FALSE
        ELSE LET i == CHOOSE j \in diff : \A k \in diff : j <= k
             IN  IF i = 1 THEN StrLt(k2[1], k1[1]) ELSE k1[i] > k2[i]

\* tuple >= tuple: as TupleGt, equal keys compare greater-or-equal.
TupleGe(k1, k2) ==
    LET diff == {i \in 1..3 : k1[i] # k2[i]}
    IN  IF diff = {}
        THEN TRUE
        ELSE LET i == CHOOSE j \in diff : \A k \in diff : j <= k
             IN  IF i = 1 THEN StrLt(k2[1], k1[1]) ELSE k1[i] >= k2[i]

\* hash(str): the builtin is opaque; it is a function of the characters
\* and distinct strings may collide.
StrHash(s) == IF Len(s) = 0 THEN 0 ELSE (s[1] + Len(s)) % 2

\* hash(tuple): a function of the items' hashes, collisions possible.
TupleHash(k) == (StrHash(k[1]) + k[2] + k[3]) % 3

-----------------------------------------------------------------------------
(* class Document *)

\* The f-string of the ValueError, as its literal pieces and the two
\* formatted values.
InitMessage(start_idx, end_idx) ==
    [pieces |-> << "Ensure that the end_idx >= start_idx. Values entered were ",
                   " and ", " respectively." >>,
     values |-> <<start_idx, end_idx>>]

\* The mutant of DocumentInit: the guard rejects end_idx = start_idx too.
DocumentInitStrictGuard(oid, dossier_name, start_idx, end_idx) ==
    IF ~(end_idx > start_idx)
    THEN Raise("ValueError", InitMessage(start_idx, end_idx))
    ELSE Return([oid |-> oid,
                 dossier_name |-> dossier_name,
                 start_idx |-> start_idx,
                 end_idx |-> end_idx,
                 page_count |-> 1 + end_idx - start_idx])

\* Document(dossier_name, start_idx, end_idx) creating the object oid.
DocumentInit(oid, dossier_name, start_idx, end_idx) ==
    IF ~(end_idx >= start_idx)
    THEN Raise("ValueError", InitMessage(start_idx, end_idx))
    ELSE Return([oid |-> oid,
                 dossier_name |-> dossier_name,
                 start_idx |-> start_idx,
                 end_idx |-> end_idx,
                 page_count |-> 1 + end_idx - start_idx])

\* len(doc)
DocLen(doc) == doc.page_count

\* doc.__key__()
Key(doc) == <<doc.dossier_name, doc.start_idx, doc.end_idx>>

\* doc(): __call__ returns the key.
DocCall(doc) == Key(doc)

\* hash(doc)
DocHash(doc) == TupleHash(DocCall(doc))

\* The values a Document may be compared with that expose no key: an int,
\* a str, None and a tuple are not callable; the class `tuple` is callable
\* and gives the empty tuple.
Others == {[oid |-> 0, type |-> "int"],
           [oid |-> 0, type |-> "str"],
           [oid |-> 0, type |-> "NoneType"],
           [oid |-> 0, type |-> "tuple"],
           [oid |-> 0, type |-> "type"]}

IsDocument(o) == "dossier_name" \in DOMAIN o

\* o() as evaluated inside the comparison hooks.
CallOperand(o) ==
    IF IsDocument(o)
    THEN Return(DocCall(o))
    ELSE IF o.type = "type"
         THEN Return(<< >>)
         ELSE Raise("TypeError", <<"object is not callable", o.type>>)

\* self.__eq__(o): the bare except swallows whatever o() raised, builds a
\* TypeError without raising it, and the method falls off its end.
DocEq(self, o) ==
    LET r == CallOperand(o)
    IN  IF r.kind = "raise"
        THEN Return("None")
        ELSE Return(IF DocCall(self) = r.val THEN "True" ELSE "False")

\* The mutant of DocGt: > answers as >= does.
DocGtAsGe(self, o) ==
    LET r == CallOperand(o)
    IN  IF r.kind = "raise" THEN r ELSE Return(TupleGe(DocCall(self), r.val))

\* self.__gt__(o)
DocGt(self, o) ==
    LET r == CallOperand(o)
    IN  IF r.kind = "raise" THEN r ELSE Return(TupleGt(DocCall(self), r.val))

\* self.__ge__(o)
DocGe(self, o) ==
    LET r == CallOperand(o)
    IN  IF r.kind = "raise" THEN r ELSE Return(TupleGe(DocCall(self), r.val))

\* a < b: Document defines no __lt__, so the interpreter evaluates the
\* reflected b.__gt__(a).
DocLt(self, o) == DocGt(o, self)

\* a <= b: Document defines no __le__, so the interpreter evaluates the
\* reflected b.__ge__(a).
DocLe(self, o) == DocGe(o, self)

\* Every Document the constructor can return for object identity oid.
Documents(oid) ==
    {r.val : r \in {x \in {DocumentInit(oid, n, s, e) :
                              n \in Names, s \in Indices, e \in Indices} :
                    x.kind = "return"}}

-----------------------------------------------------------------------------
(* float arithmetic of the metrics, on exact fractions *)

RECURSIVE Gcd(_, _)
Gcd(a, b) == IF b = 0 THEN a ELSE Gcd(b, a % b)

\* The fraction n/d (n >= 0, d > 0) in lowest terms.
Frac(n, d) == LET g == Gcd(n, d) IN <<n \div g, d \div g>>

\* int / int
TrueDiv(n, d) ==
    IF d = 0
    THEN Raise("ZeroDivisionError", <<"division by zero">>)
    ELSE Return(Frac(n, d))

\* float * float
FloatMul(x, y) == Frac(x[1] * y[1], x[2] * y[2])

\* float + float
FloatAdd(x, y) == Frac(x[1] * y[2] + y[1] * x[2], x[2] * y[2])

\* The mutant of FloatDiv: a zero denominator gives 0.0 instead of raising.
FloatDivZeroIsZero(x, y) ==
    IF y[1] = 0 THEN Return(<<0, 1>>) ELSE Return(Frac(x[1] * y[2], x[2] * y[1]))

\* float / float
FloatDiv(x, y) ==
    IF y[1] = 0
    THEN Raise("ZeroDivisionError", <<"float division by zero">>)
    ELSE Return(Frac(x[1] * y[2], x[2] * y[1]))

-----------------------------------------------------------------------------
(* builtin set of Documents: membership goes through __hash__ and __eq__ *)

\* d in s: an entry with the same hash that is the same object or compares
\* equal (a None from __eq__ is falsy).
Contains(s, d) ==
    \E x \in s : /\ DocHash(x) = DocHash(d)
                 /\ (x.oid = d.oid \/ DocEq(x, d) = Return("True"))

\* The mutant of SetAdd: every object is kept, as for a class with the
\* default identity hash and equality.
SetAddByIdentity(s, d) == s \cup {d}

\* s.add(d)
SetAdd(s, d) == IF Contains(s, d) THEN s ELSE s \cup {d}

\* set(docs): the elements are added in list order.
RECURSIVE SetOf(_)
SetOf(docs) ==
    IF Len(docs) = 0
    THEN {}
    ELSE SetAdd(SetOf(SubSeq(docs, 1, Len(docs) - 1)), docs[Len(docs)])

\* s.intersection(t): the smaller set is walked and looked up in the other.
Intersection(s, t) ==
    IF Cardinality(t) > Cardinality(s)
    THEN {x \in s : Contains(t, x)}
    ELSE {x \in t : Contains(s, x)}

\* s.union(t): a copy of s to which the elements of t are added.
Union(s, t) == s \cup {x \in t : ~Contains(s, x)}

-----------------------------------------------------------------------------
(* class SegEval *)

\* SegEval(gt_docs, pred_docs): the two attributes the constructor sets.
SegEvalInit(gt, pred) == [gt_docs |-> SetOf(gt), pred_docs |-> SetOf(pred)]

\* self.__strict_iou()
StrictIou(g, p) ==
    TrueDiv(Cardinality(Intersection(g, p)), Cardinality(Union(g, p)))

\* The mutant of StrictPrecision: the quotient is taken upside down.
StrictPrecisionInverted(g, p) ==
    TrueDiv(Cardinality(p), Cardinality(Intersection(g, p)))

\* self.__strict_precision()
StrictPrecision(g, p) ==
    TrueDiv(Cardinality(Intersection(g, p)), Cardinality(p))

\* The mutant of StrictRecall: the predictions are the denominator.
StrictRecallOverPred(g, p) ==
    TrueDiv(Cardinality(Intersection(g, p)), Cardinality(p))

\* self.__strict_recall()
StrictRecall(g, p) ==
    TrueDiv(Cardinality(Intersection(g, p)), Cardinality(g))

\* self.__strict_f1(): an exception of either operand, or of the float
\* division, propagates.
StrictF1(g, p) ==
    LET s_precision == StrictPrecision(g, p)
    IN  IF s_precision.kind = "raise"
        THEN s_precision
        ELSE LET s_recall == StrictRecall(g, p)
             IN  IF s_recall.kind = "raise"
                 THEN s_recall
                 ELSE LET q == FloatDiv(FloatMul(s_precision.val, s_recall.val),
                                        FloatAdd(s_precision.val, s_recall.val))
                      IN  IF q.kind = "raise"
                          THEN q
                          ELSE Return(FloatMul(<<2, 1>>, q.val))

\* json.dumps(dict) of a dict with str keys and float values: one member
\* per item, in insertion order, each the key and the number literal float
\* repr writes, which reads back as the very same float.
JsonDumps(items) ==
    [i \in 1..Len(items) |-> [name |-> items[i][1], number |-> items[i][2]]]

\* The mutant of MetricNames: the IoU member is spelled strictIoU.
MetricNamesIoU == <<"strictF1", "strictIoU", "strictRecall", "strictPrecision">>

\* The keys of the dict literal of __call__, in the order written.
MetricNames == <<"strictF1", "strictIou", "strictRecall", "strictPrecision">>

\* The mutant of SegEvalCall: a metric whose division raised is reported
\* as 0.0 instead.
SegEvalCallCoercesZero(g, p) ==
    LET value(r) == IF r.kind = "raise" THEN <<0, 1>> ELSE r.val
    IN  Return(JsonDumps(<< <<MetricNames[1], value(StrictF1(g, p))>>,
                            <<MetricNames[2], value(StrictIou(g, p))>>,
                            <<MetricNames[3], value(StrictRecall(g, p))>>,
                            <<MetricNames[4], value(StrictPrecision(g, p))>> >>))

\* self(): the dict literal evaluates its four values in the order written,
\* the first exception propagates, otherwise the dict is serialised.
SegEvalCall(g, p) ==
    LET f1 == StrictF1(g, p)
        iou == StrictIou(g, p)
        recall == StrictRecall(g, p)
        precision == StrictPrecision(g, p)
    IN  IF f1.kind = "raise" THEN f1
        ELSE IF iou.kind = "raise" THEN iou
        ELSE IF recall.kind = "raise" THEN recall
        ELSE IF precision.kind = "raise" THEN precision
        ELSE Return(JsonDumps(<< <<MetricNames[1], f1.val>>,
                                 <<MetricNames[2], iou.val>>,
                                 <<MetricNames[3], recall.val>>,
                                 <<MetricNames[4], precision.val>> >>))

-----------------------------------------------------------------------------
(* The state of a session *)

VARIABLES
    made,       \* outcome of the last Document(...) call, with its arguments
    cmp,        \* outcome of the last comparison of two operands
    pc,         \* "new" before SegEval(...) has run, "ready" after
    gt_in,      \* the list passed as gt_docs
    pred_in,    \* the list passed as pred_docs
    gt_docs,    \* self.__gt_docs
    pred_docs,  \* self.__pred_docs
    seen,       \* value the last accessor read returned
    first,      \* outcome of the first self() call
    out         \* outcome of the last self() call

vars == <<made, cmp, pc, gt_in, pred_in, gt_docs, pred_docs, seen, first, out>>

docVars == <<made, cmp>>

evalVars == <<pc, gt_in, pred_in, gt_docs, pred_docs, seen, first, out>>

Init ==
    /\ made = NoOutcome
    /\ cmp = NoOutcome
    /\ pc = "new"
    /\ gt_in = << >>
    /\ pred_in = << >>
    /\ gt_docs = {}
    /\ pred_docs = {}
    /\ seen = NoOutcome
    /\ first = NoOutcome
    /\ out = NoOutcome

-----------------------------------------------------------------------------
(* Document sessions *)

\* A caller constructs a Document.
NewDocument ==
    \E n \in Names, s \in Indices, e \in Indices :
        /\ made' = [kind |-> "call", args |-> <<n, s, e>>,
                    res |-> DocumentInit(1, n, s, e)]
        /\ UNCHANGED <<cmp, evalVars>>

\* A caller applies every comparison, and hash, to the Document it has
\* just constructed and another one.
CompareDocuments ==
    /\ made.kind = "call"
    /\ made.res.kind = "return"
    /\ \E b \in Documents(2) :
          LET a == made.res.val
          IN  cmp' = [kind |-> "documents", a |-> a, b |-> b,
                      eq |-> DocEq(a, b),
                      gt |-> DocGt(a, b),
                      ge |-> DocGe(a, b),
                      lt |-> DocLt(a, b),
                      le |-> DocLe(a, b),
                      hash_a |-> DocHash(a),
                      hash_b |-> DocHash(b)]
    /\ UNCHANGED <<made, evalVars>>

\* A caller evaluates a == o for the Document a it has just constructed and
\* a value o that is no Document.
CompareOther ==
    /\ made.kind = "call"
    /\ made.res.kind = "return"
    /\ \E o \in Others :
          cmp' = [kind |-> "other", a |-> made.res.val, b |-> o,
                  eq |-> DocEq(made.res.val, o)]
    /\ UNCHANGED <<made, evalVars>>

NextDocument == NewDocument \/ CompareDocuments \/ CompareOther

SpecDocument == Init /\ [][NextDocument]_vars

-----------------------------------------------------------------------------
(* Evaluator sessions *)

\* The descriptors a caller builds its lists from: two dossiers, "d" and
\* "d1", and page ranges that differ in the start, in the end or in both.
\* Under StrHash and TupleHash two pairs of them collide.
Descriptors ==
    { <<(<<100>>), 1, 1>>, <<(<<100>>), 1, 2>>, <<(<<100>>), 2, 2>>,
      <<(<<100, 49>>), 1, 1>>, <<(<<100, 49>>), 1, 2>> }

DescriptorLists == UNION {[1..k -> Descriptors] : k \in 0..MaxLen}

\* The list of fresh Documents built from descriptors; the objects are
\* numbered from base + 1.
DocumentList(ds, base) ==
    [i \in 1..Len(ds) |-> DocumentInit(base + i, ds[i][1], ds[i][2], ds[i][3]).val]

\* SegEval(gt, pred) on two freshly built lists.
NewSegEval ==
    /\ pc = "new"
    /\ \E g \in DescriptorLists, p \in DescriptorLists :
          LET gt == DocumentList(g, 0)
              pred == DocumentList(p, Len(g))
              self == SegEvalInit(gt, pred)
          IN  /\ gt_in' = gt
              /\ pred_in' = pred
              /\ gt_docs' = self.gt_docs
              /\ pred_docs' = self.pred_docs
    /\ pc' = "ready"
    /\ UNCHANGED <<docVars, seen, first, out>>

\* self.gt_docs
ReadGtDocs ==
    /\ pc = "ready"
    /\ seen' = Return(gt_docs)
    /\ UNCHANGED <<docVars, pc, gt_in, pred_in, gt_docs, pred_docs, first, out>>

\* self.pred_docs
ReadPredDocs ==
    /\ pc = "ready"
    /\ seen' = Return(pred_docs)
    /\ UNCHANGED <<docVars, pc, gt_in, pred_in, gt_docs, pred_docs, first, out>>

\* The mutant of Call: the intersection is taken in place
\* (intersection_update), so the call shrinks self.__gt_docs.
CallIntersectsInPlace ==
    /\ pc = "ready"
    /\ out' = SegEvalCall(gt_docs, pred_docs)
    /\ first' = IF first = NoOutcome THEN out' ELSE first
    /\ gt_docs' = Intersection(gt_docs, pred_docs)
    /\ UNCHANGED <<docVars, pc, gt_in, pred_in, pred_docs, seen>>

\* self()
Call ==
    /\ pc = "ready"
    /\ out' = SegEvalCall(gt_docs, pred_docs)
    /\ first' = IF first = NoOutcome THEN out' ELSE first
    /\ UNCHANGED <<docVars, pc, gt_in, pred_in, gt_docs, pred_docs, seen>>

Next == NewSegEval \/ ReadGtDocs \/ ReadPredDocs \/ Call

Spec == Init /\ [][Next]_vars

-----------------------------------------------------------------------------
(* What the properties below are stated in: the deduplicated key sets of   *)
(* the two input lists, members of the serialised result, exact fractions. *)

KeysOf(docs) == {Key(docs[i]) : i \in 1..Len(docs)}

GT == KeysOf(gt_in)

Pred == KeysOf(pred_in)

Called == out.kind # "none"

\* The number written for the member called name in a returned result.
Member(o, name) ==
    o.val[CHOOSE i \in 1..Len(o.val) : o.val[i].name = name].number

HasMember(o, name) == \E i \in 1..Len(o.val) : o.val[i].name = name

\* The float x is the quotient n / d.
IsQuotient(x, n, d) == d # 0 /\ x[1] * d = n * x[2]

InUnitInterval(x) == 0 <= x[1] /\ x[1] <= x[2]

One == <<1, 1>>

\* C1: whenever the deduplicated key sets GT and Pred share a triple, the
\* call returns, with strictPrecision = |GT n Pred| / |Pred|, strictRecall =
\* |GT n Pred| / |GT|, the IoU member = |GT n Pred| / |GT u Pred| and
\* strictF1 = 2PR / (P + R), the intersection being over exact triples.
C1_StrictMetrics ==
    (Called /\ GT \cap Pred # {}) =>
        /\ out.kind = "return"
        /\ LET i == Cardinality(GT \cap Pred)
               g == Cardinality(GT)
               p == Cardinality(Pred)
               u == Cardinality(GT \cup Pred)
           IN  /\ IsQuotient(Member(out, "strictPrecision"), i, p)
               /\ IsQuotient(Member(out, "strictRecall"), i, g)
               /\ IsQuotient(Member(out, "strictIou"), i, u)
               /\ IsQuotient(Member(out, "strictF1"), 2 * i * i, i * g + i * p)

\* Witness of C1: two ground-truth and two predicted documents of which one
\* matches exactly; the result is 1/2, 1/2, 1/3, 1/2.
C1_Witness ==
    /\ out.kind = "return"
    /\ Cardinality(GT) = 2 /\ Cardinality(Pred) = 2
    /\ Cardinality(GT \cap Pred) = 1
    /\ Member(out, "strictPrecision") = <<1, 2>>
    /\ Member(out, "strictRecall") = <<1, 2>>
    /\ Member(out, "strictIou") = <<1, 3>>
    /\ Member(out, "strictF1") = <<1, 2>>

\* C2: with an empty ground-truth set, an empty predicted set, or both, the
\* call raises ZeroDivisionError and returns nothing.
C2_EmptyRaises ==
    (Called /\ (GT = {} \/ Pred = {})) =>
        /\ out.kind = "raise"
        /\ out.exc = "ZeroDivisionError"

\* Witness of C2: a call on an empty ground truth and a non-empty prediction
\* has raised.
C2_Witness ==
    /\ out.kind = "raise"
    /\ GT = {}
    /\ Pred # {}

\* C3: with GT and Pred non-empty and disjoint, precision, recall and IoU
\* are each 0, F1 raises ZeroDivisionError, and so does the call.
C3_DisjointLaw ==
    (pc = "ready" /\ GT # {} /\ Pred # {} /\ GT \cap Pred = {}) =>
        /\ StrictPrecision(gt_docs, pred_docs) = Return(<<0, 1>>)
        /\ StrictRecall(gt_docs, pred_docs) = Return(<<0, 1>>)
        /\ StrictIou(gt_docs, pred_docs) = Return(<<0, 1>>)
        /\ StrictF1(gt_docs, pred_docs).kind = "raise"
        /\ StrictF1(gt_docs, pred_docs).exc = "ZeroDivisionError"
        /\ Called => (out.kind = "raise" /\ out.exc = "ZeroDivisionError")

\* Witness of C3: a call on non-empty disjoint sets has raised.
C3_Witness ==
    /\ out.kind = "raise"
    /\ GT # {} /\ Pred # {}
    /\ GT \cap Pred = {}

MemberNames(o) == {o.val[i].name : i \in 1..Len(o.val)}

\* C4 as claimed: a returned result has exactly the four members strictF1,
\* strictIoU, strictRecall and strictPrecision.
C4_FieldNamesAsClaimed ==
    out.kind = "return" =>
        /\ Len(out.val) = 4
        /\ MemberNames(out) = {"strictF1", "strictIoU", "strictRecall", "strictPrecision"}

\* C4 as amended: a returned result has exactly the four members strictF1,
\* strictIou, strictRecall and strictPrecision.
C4_FieldNames ==
    out.kind = "return" =>
        /\ Len(out.val) = 4
        /\ MemberNames(out) = {"strictF1", "strictIou", "strictRecall", "strictPrecision"}

\* Witness of C4: a call has returned a result that has a strictIou member.
C4_Witness ==
    /\ out.kind = "return"
    /\ HasMember(out, "strictIou")
    /\ ~HasMember(out, "strictIoU")

\* C5: Document(name, s, e) with e < s raises ValueError, its message
\* carrying both s and e, and yields no object; with e >= s it returns a
\* Document whose length is e - s + 1 >= 1.
C5_Construction ==
    made.kind = "call" =>
        LET s == made.args[2]
            e == made.args[3]
            r == made.res
        IN  /\ e < s =>
                  /\ r.kind = "raise"
                  /\ r.exc = "ValueError"
                  /\ \E i \in 1..Len(r.msg.values) : r.msg.values[i] = s
                  /\ \E i \in 1..Len(r.msg.values) : r.msg.values[i] = e
            /\ e >= s =>
                  /\ r.kind = "return"
                  /\ DocLen(r.val) = e - s + 1
                  /\ DocLen(r.val) >= 1
                  /\ Key(r.val) = made.args

\* Witness of C5: a construction with end_idx < start_idx has raised.
C5_Witness ==
    /\ made.kind = "call"
    /\ made.args[3] < made.args[2]
    /\ made.res.kind = "raise"

\* The order on str the claim names: by the first character, then by the
\* rest; the empty string is below every other.
RECURSIVE NameBefore(_, _)
NameBefore(s, t) ==
    IF Len(t) = 0 THEN FALSE
    ELSE IF Len(s) = 0 THEN TRUE
    ELSE \/ Head(s) < Head(t)
         \/ Head(s) = Head(t) /\ NameBefore(Tail(s), Tail(t))

\* The lexicographic order on key triples: name, then start, then end.
KeyBefore(k1, k2) ==
    \/ NameBefore(k1[1], k2[1])
    \/ /\ k1[1] = k2[1]
       /\ \/ k1[2] < k2[2]
          \/ k1[2] = k2[2] /\ k1[3] < k2[3]

\* C6: for two Documents every comparison returns what the same comparison
\* of their key triples gives under the lexicographic order, equal
\* Documents hash alike, and exactly one of a < b, a == b, a > b holds.
C6_KeyOrder ==
    cmp.kind = "documents" =>
        LET ka == Key(cmp.a)
            kb == Key(cmp.b)
        IN  /\ cmp.eq = Return(IF ka = kb THEN "True" ELSE "False")
            /\ ka = kb => cmp.hash_a = cmp.hash_b
            /\ cmp.gt = Return(KeyBefore(kb, ka))
            /\ cmp.ge = Return(KeyBefore(kb, ka) \/ ka = kb)
            /\ cmp.lt = Return(KeyBefore(ka, kb))
            /\ cmp.le = Return(KeyBefore(ka, kb) \/ ka = kb)
            /\ Cardinality({x \in {"lt", "eq", "gt"} :
                   \/ x = "lt" /\ cmp.lt = Return(TRUE)
                   \/ x = "eq" /\ cmp.eq = Return("True")
                   \/ x = "gt" /\ cmp.gt = Return(TRUE)}) = 1

\* Witness of C6: two distinct objects with the same key have been compared.
C6_Witness ==
    /\ cmp.kind = "documents"
    /\ cmp.a.oid # cmp.b.oid
    /\ Key(cmp.a) = Key(cmp.b)
    /\ cmp.eq = Return("True")
    /\ cmp.ge = Return(TRUE)

\* C7 as claimed: a == o for a value o that exposes no key either returns
\* False or raises TypeError.
C7_IncompatibleEq ==
    cmp.kind = "other" =>
        \/ cmp.eq = Return("False")
        \/ cmp.eq.kind = "raise" /\ cmp.eq.exc = "TypeError"

\* The input list without the later occurrences of a triple.
RECURSIVE Dedup(_)
Dedup(docs) ==
    IF Len(docs) = 0
    THEN << >>
    ELSE LET front == SubSeq(docs, 1, Len(docs) - 1)
             last == docs[Len(docs)]
         IN  IF Key(last) \in KeysOf(front)
             THEN Dedup(front)
             ELSE Append(Dedup(front), last)

Reversed(docs) == [i \in 1..Len(docs) |-> docs[Len(docs) + 1 - i]]

\* Two stored sets hold the same documents.
SameDocuments(s, t) ==
    /\ Cardinality(s) = Cardinality(t)
    /\ {Key(x) : x \in s} = {Key(x) : x \in t}

\* C8: the stored sets, and the outcome of the call, are those of an
\* evaluator built from the lists with the repeated triples removed, in
\* either order of the lists' elements.
C8_Deduplication ==
    pc = "ready" =>
        \A ref \in {SegEvalInit(Dedup(gt_in), Dedup(pred_in)),
                    SegEvalInit(Reversed(Dedup(gt_in)), Reversed(Dedup(pred_in)))} :
            /\ SameDocuments(gt_docs, ref.gt_docs)
            /\ SameDocuments(pred_docs, ref.pred_docs)
            /\ Cardinality(gt_docs) = Cardinality(GT)
            /\ Cardinality(pred_docs) = Cardinality(Pred)
            /\ Called => out = SegEvalCall(ref.gt_docs, ref.pred_docs)

\* Witness of C8: an evaluator built from lists that both repeat a triple
\* has returned a result.
C8_Witness ==
    /\ pc = "ready"
    /\ Len(gt_in) > Cardinality(GT)
    /\ Len(pred_in) > Cardinality(Pred)
    /\ out.kind = "return"

\* C9: once constructed, no operation changes either stored set, and every
\* call has the outcome of the first one.
C9_ReadOnly ==
    /\ [][pc = "ready" => (gt_docs' = gt_docs /\ pred_docs' = pred_docs)]_vars
    /\ [](first.kind # "none" => out = first)

\* Witness of C9: both accessors' values have been read and calls have
\* been made on an evaluator whose ground truth has an unmatched document.
C9_Witness ==
    /\ seen.kind = "return"
    /\ out.kind = "return"
    /\ first = out
    /\ GT \cap Pred # GT

\* C10: each number of a returned result lies in [0, 1], and all four are 1
\* exactly when GT and Pred are the same set.
C10_RangeLaw ==
    out.kind = "return" =>
        LET values == {Member(out, n) : n \in MemberNames(out)}
        IN  /\ \A x \in values : InUnitInterval(x)
            /\ (values = {One}) <=> (GT = Pred)

\* Witness of C10: a result with all four numbers 1 has been returned for
\* equal sets built from lists in different orders.
C10_Witness ==
    /\ out.kind = "return"
    /\ \A n \in MemberNames(out) : Member(out, n) = One
    /\ GT = Pred
    /\ Cardinality(GT) = 2
    /\ KeysOf(<<gt_in[1]>>) # KeysOf(<<pred_in[1]>>)

=============================================================================
